---- MODULE Spec2Model ----
(***************************************************************************)
(* Ch17.ipynb: the entropy helpers of the decision-tree notebook           *)
(* (entropy, class_probabilities, data_entropy, partition_entropy), as     *)
(* they run under the notebook's own kernel (Python 2.7).                  *)
(*                                                                         *)
(* Numbers.  A Python number is a record [ty, v]: ty is "int" or "float"   *)
(* and v is the value in units of 1/Scale (fixed point), so the int n has  *)
(* v = n * Scale.  The probabilities drawn as inputs are 0 and powers of   *)
(* two, for which -p * log2(p) and the sums of such terms are exact both   *)
(* in IEEE doubles and in this representation.                             *)
(*                                                                         *)
(* Outcomes.  A call either returns, [kind |-> "ok", val |-> value], or    *)
(* raises, [kind |-> <the exception's name>].                              *)
(***************************************************************************)
EXTENDS Integers, Sequences, FiniteSets, TLC

\* ------------------------------------------------------------------ bounds
MaxLen == 3
MaxSubsets == 3
MaxSubsetLen == 2
MaxGlobalLen == 2

\* ----------------------------------------------------------------- numbers
Scale == 2 * 2 * 2

PyInt(n) == [ty |-> "int", v |-> n * Scale]
PyFloat(v) == [ty |-> "float", v |-> v]

Ok(val) == [kind |-> "ok", val |-> val]
Raise(name) == [kind |-> name]

JoinTy(a, b) == IF a.ty = "float" \/ b.ty = "float" THEN "float" ELSE "int"

\* a + b
Add(a, b) == [ty |-> JoinTy(a, b), v |-> a.v + b.v]

\* -a
Neg(a) == [ty |-> a.ty, v |-> 0 - a.v]

\* a * b
Mul(a, b) == [ty |-> JoinTy(a, b), v |-> (a.v * b.v) \div Scale]

\* a / b under Python 2 without "from __future__ import division": floor
\* division when both operands are ints, true division otherwise, and
\* ZeroDivisionError for a zero divisor in both cases.
Div(a, b) ==
  IF b.v = 0 THEN Raise("ZeroDivisionError")
  ELSE IF JoinTy(a, b) = "int"
       THEN Ok([ty |-> "int", v |-> (a.v \div b.v) * Scale])
       ELSE Ok([ty |-> "float", v |-> (a.v * Scale) \div b.v])

RECURSIVE Log2Exp(_)
\* the exponent k with v / Scale = 2^k (exact for the powers of two)
Log2Exp(v) ==
  IF v >= 2 * Scale THEN Log2Exp(v \div 2) + 1
  ELSE IF v < Scale THEN Log2Exp(2 * v) - 1
  ELSE 0

\* math.log(p, 2), for p > 0: always a float
MathLog2(p) == PyFloat(Log2Exp(p.v) * Scale)

\* ------------------------------------------------------------------ inputs
Probs == {PyFloat(0), PyFloat(Scale \div 4), PyFloat(Scale \div 2), PyFloat(Scale)}

LabelValues == {FALSE, TRUE}

Attributes ==
  { [level |-> "Senior", lang |-> "Java", tweets |-> "no", phd |-> "no"],
    [level |-> "Mid", lang |-> "Python", tweets |-> "no", phd |-> "no"] }

Examples == Attributes \X LabelValues

\* the examples the subsets of a partition are drawn from
PartExamples ==
  { <<[level |-> "Senior", lang |-> "Java", tweets |-> "no", phd |-> "no"], l>> :
      l \in LabelValues }

SeqsUpTo(S, n) == UNION { [1..k -> S] : k \in 0..n }

inputs ==
  << <<[level |-> "Senior", lang |-> "Java", tweets |-> "no", phd |-> "no"], FALSE>>,
     <<[level |-> "Senior", lang |-> "Java", tweets |-> "no", phd |-> "yse"], FALSE>>,
     <<[level |-> "Mid", lang |-> "Python", tweets |-> "no", phd |-> "no"], TRUE>>,
     <<[level |-> "Junior", lang |-> "Python", tweets |-> "no", phd |-> "no"], TRUE>> >>

\* ------------------------------------------------------ the notebook's globals
\* The binding of the global name class_probabilitiers, the free name in the
\* body of entropy.  No cell of the notebook assigns it.
Unbound == [defined |-> FALSE, val |-> <<>>]

\* ----------------------------------------------------------------- entropy
RECURSIVE EntropySum(_, _, _)
\* sum(-p * math.log(p, 2) for p in ps if p), from element i on, acc so far
EntropySum(ps, i, acc) ==
  IF i > Len(ps) THEN Ok(acc)
  ELSE IF ps[i].v = 0 THEN EntropySum(ps, i + 1, acc)
  ELSE IF ps[i].v < 0 THEN Raise("ValueError")
  ELSE EntropySum(ps, i + 1, Add(acc, Mul(Neg(ps[i]), MathLog2(ps[i]))))

\* entropy(class_probabilities): the generator iterates the GLOBAL name
\* class_probabilitiers, looked up when the generator is created; the
\* parameter is never read.
Entropy(class_probabilities, g) ==
  IF ~g.defined THEN Raise("NameError")
  ELSE EntropySum(g.val, 1, PyInt(0))

\* ----------------------------------------------------- class_probabilities
RECURSIVE CountOf(_, _)
CountOf(labels, l) ==
  IF labels = <<>> THEN 0
  ELSE (IF Head(labels) = l THEN 1 ELSE 0) + CountOf(Tail(labels), l)

RECURSIVE DistinctOf(_, _)
\* the keys of Counter(labels); listed by first occurrence (the dictionary's
\* own order is hash order, which no result below depends on)
DistinctOf(labels, seen) ==
  IF labels = <<>> THEN seen
  ELSE IF \E i \in 1..Len(seen) : seen[i] = Head(labels)
       THEN DistinctOf(Tail(labels), seen)
       ELSE DistinctOf(Tail(labels), Append(seen, Head(labels)))

RECURSIVE Proportions(_, _, _, _)
\* [count / total_count for count in counts], from element i on
Proportions(counts, total_count, i, acc) ==
  IF i > Len(counts) THEN Ok(acc)
  ELSE LET q == Div(PyInt(counts[i]), PyInt(total_count))
       IN IF q.kind # "ok" THEN q
          ELSE Proportions(counts, total_count, i + 1, Append(acc, q.val))

\* class_probabilities that divides by total_count before looking at the counts
ClassProbabilitiesEager(labels) ==
  LET total_count == Len(labels)
      keys == DistinctOf(labels, <<>>)
      counts == [i \in 1..Len(keys) |-> CountOf(labels, keys[i])]
      unit == Div(PyInt(1), PyInt(total_count))
  IN IF unit.kind # "ok" THEN unit
     ELSE Proportions(counts, total_count, 1, <<>>)

ClassProbabilities(labels) ==
  LET total_count == Len(labels)
      keys == DistinctOf(labels, <<>>)
      counts == [i \in 1..Len(keys) |-> CountOf(labels, keys[i])]
  IN Proportions(counts, total_count, 1, <<>>)

\* ------------------------------------------------------------ data_entropy
\* [label for _, label in labeled_data]
LabelsOf(labeled_data) == [i \in 1..Len(labeled_data) |-> labeled_data[i][2]]

DataEntropy(labeled_data, g) ==
  LET labels == LabelsOf(labeled_data)
      probabilities == ClassProbabilities(labels)
  IN IF probabilities.kind # "ok" THEN probabilities
     ELSE Entropy(probabilities.val, g)

\* ------------------------------------------------------- partition_entropy
RECURSIVE SumLen(_)
\* sum(len(subset) for subset in subsets)
SumLen(subsets) ==
  IF subsets = <<>> THEN 0 ELSE Len(Head(subsets)) + SumLen(Tail(subsets))

RECURSIVE WeightedSum(_, _, _, _, _, _)
\* sum(data_entropy(subset) * len(subset) / total_count for subset in subsets)
\* from element i on; calls lists the arguments data_entropy was called with
WeightedSum(subsets, total_count, g, i, acc, calls) ==
  IF i > Len(subsets) THEN [out |-> Ok(acc), calls |-> calls]
  ELSE LET subset == subsets[i]
           called == Append(calls, subset)
           d == DataEntropy(subset, g)
       IN IF d.kind # "ok" THEN [out |-> d, calls |-> called]
          ELSE LET q == Div(Mul(d.val, PyInt(Len(subset))), PyInt(total_count))
               IN IF q.kind # "ok" THEN [out |-> q, calls |-> called]
                  ELSE WeightedSum(subsets, total_count, g, i + 1,
                                   Add(acc, q.val), called)

\* partition_entropy with empty subsets left out of the sum
PartitionEntropySkipEmpty(subsets, g) ==
  LET total_count == SumLen(subsets)
      NonEmpty(subset) == subset # <<>>
  IN WeightedSum(SelectSeq(subsets, NonEmpty), total_count, g, 1, PyInt(0), <<>>)

PartitionEntropy(subsets, g) ==
  LET total_count == SumLen(subsets)
  IN WeightedSum(subsets, total_count, g, 1, PyInt(0), <<>>)

\* ------------------------------------------------------------------- state
\* One interactive session: at the prompt (pc = "prompt") a call of one of the
\* four functions is evaluated as a whole; pc = "done" shows its outcome, and
\* the session then returns to the prompt.
VARIABLES pc, op, arg, result, calls, glob
vars == <<pc, op, arg, result, calls, glob>>

Init ==
  /\ pc = "prompt"
  /\ op = "none"
  /\ arg = <<>>
  /\ result = Raise("none")
  /\ calls = <<>>
  /\ glob = Unbound

CallEntropy ==
  /\ pc = "prompt"
  /\ \E ps \in SeqsUpTo(Probs, MaxLen) :
       /\ op' = "entropy"
       /\ arg' = ps
       /\ result' = Entropy(ps, glob)
  /\ calls' = <<>>
  /\ pc' = "done"
  /\ UNCHANGED glob

CallClassProbabilities ==
  /\ pc = "prompt"
  /\ \E labels \in SeqsUpTo(LabelValues, MaxLen) :
       /\ op' = "class_probabilities"
       /\ arg' = labels
       /\ result' = ClassProbabilities(labels)
  /\ calls' = <<>>
  /\ pc' = "done"
  /\ UNCHANGED glob

CallDataEntropy ==
  /\ pc = "prompt"
  /\ \E labeled_data \in SeqsUpTo(Examples, MaxLen) \cup {inputs} :
       /\ op' = "data_entropy"
       /\ arg' = labeled_data
       /\ result' = DataEntropy(labeled_data, glob)
  /\ calls' = <<>>
  /\ pc' = "done"
  /\ UNCHANGED glob

CallPartitionEntropy ==
  /\ pc = "prompt"
  /\ \E subsets \in SeqsUpTo(SeqsUpTo(PartExamples, MaxSubsetLen), MaxSubsets) :
       LET r == PartitionEntropy(subsets, glob)
       IN /\ op' = "partition_entropy"
          /\ arg' = subsets
          /\ result' = r.out
          /\ calls' = r.calls
  /\ pc' = "done"
  /\ UNCHANGED glob

\* back at the prompt; the functions keep no state, so nothing else is left
BackToPrompt ==
  /\ pc = "done"
  /\ pc' = "prompt"
  /\ op' = "none"
  /\ arg' = <<>>
  /\ result' = Raise("none")
  /\ calls' = <<>>
  /\ UNCHANGED glob

Next ==
  \/ CallEntropy
  \/ CallClassProbabilities
  \/ CallDataEntropy
  \/ CallPartitionEntropy
  \/ BackToPrompt

Spec == Init /\ [][Next]_vars

\* The same session with its global namespace open to the user: a statement
\* typed at the prompt assigns the name class_probabilitiers, the free name
\* that the body of entropy looks up.
AssignGlobal ==
  /\ pc = "prompt"
  /\ \E ps \in SeqsUpTo(Probs, MaxGlobalLen) :
       glob' = [defined |-> TRUE, val |-> ps]
  /\ UNCHANGED <<pc, op, arg, result, calls>>

SessionNext ==
  \/ CallEntropy
  \/ CallClassProbabilities
  \/ CallDataEntropy
  \/ CallPartitionEntropy
  \/ BackToPrompt
  \/ AssignGlobal

SessionSpec == Init /\ [][SessionNext]_vars

\* ------------------------------------------------------------ the claims
Done(name) == pc = "done" /\ op = name

Range(f) == { f[i] : i \in DOMAIN f }

\* equal outcomes: the same exception, or equal numbers (0 == 0.0 in Python)
SameOutcome(a, b) == a.kind = b.kind /\ (a.kind = "ok" => a.val.v = b.val.v)

RECURSIVE ShannonSum(_)
\* the sum over the nonzero entries p of -p * log2(p), in units of 1/Scale
ShannonSum(ps) ==
  IF ps = <<>> THEN 0
  ELSE (IF Head(ps).v = 0 THEN 0 ELSE (0 - Head(ps).v) * Log2Exp(Head(ps).v))
       + ShannonSum(Tail(ps))

RECURSIVE SumV(_)
SumV(ns) == IF ns = <<>> THEN 0 ELSE Head(ns).v + SumV(Tail(ns))

\* C1: every call of entropy returns a number >= 0 equal to the sum over the
\* nonzero entries p of -p*log2(p); so entropy([1.0]) == 0.0 and
\* entropy([0.5, 0.5]) == 1.0.
C1_EntropyIsShannonSum ==
  Done("entropy") =>
    /\ result.kind = "ok"
    /\ result.val.v >= 0
    /\ result.val.v = ShannonSum(arg)

\* C2 (as stated): class_probabilities raises a division / invalid-argument
\* error on the empty sequence and never returns a value for it.
C2_EmptyLabelsRaise ==
  (Done("class_probabilities") /\ arg = <<>>) =>
    result.kind \in {"ZeroDivisionError", "ValueError"}

\* C2 (amended): class_probabilities returns the empty list for the empty
\* sequence; no division is evaluated and nothing is raised.
C2_EmptyLabelsGiveEmptyList ==
  (Done("class_probabilities") /\ arg = <<>>) => result = Ok(<<>>)

C2_Witness ==
  Done("class_probabilities") /\ arg = <<>> /\ result.kind = "ok"

\* C3: for non-empty labels class_probabilities returns one proportion per
\* distinct label, each the true fraction count / total, and they sum to 1.
C3_TrueFractions ==
  (Done("class_probabilities") /\ arg # <<>>) =>
    /\ result.kind = "ok"
    /\ Len(result.val) = Cardinality(Range(arg))
    /\ \A l \in Range(arg) :
         Cardinality({ i \in 1..Len(result.val) :
                         result.val[i].v * Len(arg) = CountOf(arg, l) * Scale })
           = Cardinality({ m \in Range(arg) : CountOf(arg, m) = CountOf(arg, l) })
    /\ SumV(result.val) = Scale

RECURSIVE WeightedTotal(_, _)
\* the sum over the subsets of data_entropy(subset) * len(subset), in units
\* of 1/Scale (only used where every data_entropy(subset) returns)
WeightedTotal(subsets, g) ==
  IF subsets = <<>> THEN 0
  ELSE DataEntropy(Head(subsets), g).val.v * Len(Head(subsets))
       + WeightedTotal(Tail(subsets), g)

\* C4: when the total example count is > 0, partition_entropy returns the
\* weighted average: the sum of data_entropy(subset) * (len(subset) / total).
C4_WeightedAverage ==
  (Done("partition_entropy") /\ SumLen(arg) > 0) =>
    /\ result.kind = "ok"
    /\ \A i \in 1..Len(arg) : DataEntropy(arg[i], glob).kind = "ok"
    /\ result.val.v * SumLen(arg) = WeightedTotal(arg, glob)

\* subsets with an empty subset inserted after its first k elements
InsertEmpty(subsets, k) ==
  SubSeq(subsets, 1, k) \o << <<>> >> \o SubSeq(subsets, k + 1, Len(subsets))

\* C5: with at least one non-empty subset, inserting an empty subset at any
\* position raises no error and leaves the result of partition_entropy as it
\* was.
C5_EmptySubsetIgnored ==
  (Done("partition_entropy") /\ \E i \in 1..Len(arg) : arg[i] # <<>>) =>
    \A k \in 0..Len(arg) :
      LET withEmpty == PartitionEntropy(InsertEmpty(arg, k), glob).out
      IN /\ withEmpty.kind = "ok"
         /\ result.kind = "ok"
         /\ withEmpty.val.v = result.val.v

\* C6 (as stated): partition_entropy never passes an empty subset to
\* data_entropy.
C6_NeverCalledOnEmpty ==
  Done("partition_entropy") => \A i \in 1..Len(calls) : calls[i] # <<>>

\* C6 (amended): partition_entropy passes its subsets to data_entropy in
\* sequence order starting with the first and skipping none, empty or not:
\* the subsets passed are a prefix of the argument, and the first subset is
\* always passed.
C6_CalledInOrderEmptyOrNot ==
  Done("partition_entropy") =>
    /\ Len(calls) <= Len(arg)
    /\ \A i \in 1..Len(calls) : calls[i] = arg[i]
    /\ arg # <<>> => Len(calls) >= 1

C6_Witness ==
  /\ Done("partition_entropy")
  /\ Len(arg) >= 2
  /\ arg[1] = <<>>
  /\ arg[2] # <<>>
  /\ calls = << <<>> >>

\* C7: data_entropy(labeled_data) is entropy(class_probabilities(labels)) for
\* the labels alone, and it is 1.0 on the sample dataset inputs.
C7_DataEntropyOfInputs ==
  Done("data_entropy") =>
    /\ LET probabilities == ClassProbabilities(LabelsOf(arg))
       IN probabilities.kind = "ok"
          /\ SameOutcome(result, Entropy(probabilities.val, glob))
    /\ arg = inputs => (result.kind = "ok" /\ result.val.v = Scale)

\* one entry is 1 and all the others are 0
OneHot(ps) ==
  /\ Cardinality({ i \in 1..Len(ps) : ps[i].v = Scale }) = 1
  /\ \A i \in 1..Len(ps) : ps[i].v \in {0, Scale}

\* C8: on a vector with one entry 1 and any number of entries 0, entropy
\* returns 0.0 and raises nothing.
C8_OneHotEntropyZero ==
  (Done("entropy") /\ OneHot(arg)) => (result.kind = "ok" /\ result.val.v = 0)

\* every subset is non-empty and all its examples carry one label
Unanimous(subsets) ==
  \A i \in 1..Len(subsets) :
    /\ subsets[i] # <<>>
    /\ \A j, k \in 1..Len(subsets[i]) : subsets[i][j][2] = subsets[i][k][2]

\* C9: on non-empty unanimous subsets partition_entropy returns 0.0,
\* whatever their sizes and labels.
C9_UnanimousPartitionZero ==
  (Done("partition_entropy") /\ Unanimous(arg)) =>
    (result.kind = "ok" /\ result.val.v = 0)

Permuted(subsets, f) == [i \in 1..Len(subsets) |-> subsets[f[i]]]

\* C10: partition_entropy gives the same result, or the same error, for
\* every reordering of its subsets.
C10_OrderInvariant ==
  Done("partition_entropy") =>
    \A f \in Permutations(1..Len(arg)) :
      SameOutcome(PartitionEntropy(Permuted(arg, f), glob).out, result)

C10_Witness ==
  /\ Done("partition_entropy")
  /\ Len(arg) >= 2
  /\ arg[1] = <<>>
  /\ arg[Len(arg)] # <<>>
  /\ \E f \in Permutations(1..Len(arg)) : Permuted(arg, f)[1] # <<>>

\* the outcome of calling the function called name on argument a in a session
\* whose global class_probabilitiers is bound as g
OutcomeOf(name, a, g) ==
  CASE name = "entropy" -> Entropy(a, g)
    [] name = "class_probabilities" -> ClassProbabilities(a)
    [] name = "data_entropy" -> DataEntropy(a, g)
    [] name = "partition_entropy" -> PartitionEntropy(a, g).out

\* a step that evaluates a call
IsCall == pc = "prompt" /\ pc' = "done"

\* C11: the four functions are pure and independent of what ran before: the
\* outcome of a call is fixed by its argument alone, so it is the outcome the
\* same call has in the session where the global class_probabilitiers was
\* never assigned, and a call leaves the global state as it found it.
C11_PureFunctions ==
  /\ [](pc = "done" => result = OutcomeOf(op, arg, Unbound))
  /\ [][IsCall => glob' = glob]_vars

====
